---- MODULE Spec2Model ----
(***************************************************************************)
(* Decoding of a virtual Branch from a key/value reader:                   *)
(* packages/tauri/src/virtual_branches/branch/mod.rs,                      *)
(* impl TryFrom<&dyn crate::reader::Reader> for Branch.                    *)
(*                                                                         *)
(* A stored string is a sequence of one-character strings, so that the     *)
(* coercions (bool, integer, object id, remote reference, ownership) are   *)
(* computed from the characters.  The store of a branch maps each key to   *)
(* an entry: absent, unreadable (an I/O fault) or a file with a content.   *)
(***************************************************************************)
EXTENDS Integers, Sequences, FiniteSets, TLC

VARIABLES
  store,     \* branch -> (key -> entry): what the reader of that branch sees
  local,     \* decoder -> the locals of its call of try_from
  returned,  \* history: the <<branch, result>> pairs returned so far
  repeats    \* number of decodes started after a caller's first one

vars == <<store, local, returned, repeats>>

\* ------------------------------------------------------------------ bounds

\* at most this many keys of a record deviate from a well-formed record
MaxFaults == 2
\* number of callers decoding concurrently in SpecConc
NumDecoders == 2
\* number of decodes started by callers that already have a result
MaxRepeats == 2

\* ---------------------------------------------------------------- the keys

K_id == "id"
K_name == "meta/name"
K_notes == "meta/notes"
K_applied == "meta/applied"
K_order == "meta/order"
K_upstream == "meta/upstream"
K_tree == "meta/tree"
K_head == "meta/head"
K_created == "meta/created_timestamp_ms"
K_updated == "meta/updated_timestamp_ms"
K_ownership == "meta/ownership"

Keys ==
  {K_id, K_name, K_notes, K_applied, K_order, K_upstream, K_tree, K_head,
   K_created, K_updated, K_ownership}

\* ------------------------------------------------- results and error values

Ok(v) == [ok |-> TRUE, val |-> v, err |-> <<>>]
Err(e) == [ok |-> FALSE, val |-> <<>>, err |-> e]

\* crate::reader::Error: NotFound | IOError(std::io::Error); msg is the text
\* of the io::Error, a sequence of text pieces
NotFound == [variant |-> "NotFound", msg |-> <<>>]
IOError(m) == [variant |-> "IOError", msg |-> m]

\* Display of a reader error, as format!("{}", e) renders it
Display(e) ==
  IF e.variant = "NotFound" THEN <<"file not found">>
  ELSE <<"io error">> \o e.msg

\* Error::IOError(io::Error::new(ErrorKind::Other, format!("<key>: {}", e)))
Wrap(key, text) == IOError(<<key>> \o text)

\* ------------------------------------------------------- textual coercions

Digits == {"0", "1", "2", "3", "4", "5", "6", "7", "8", "9"}
HexDigits == Digits \cup {"a", "b", "c", "d", "e", "f"}

DigitVal(c) ==
  CASE c = "0" -> 0 [] c = "1" -> 1 [] c = "2" -> 2 [] c = "3" -> 3
    [] c = "4" -> 4 [] c = "5" -> 5 [] c = "6" -> 6 [] c = "7" -> 7
    [] c = "8" -> 8 [] c = "9" -> 9

AllIn(s, S) == \A i \in 1..Len(s) : s[i] \in S

RECURSIVE NatValue(_)
NatValue(s) ==
  IF s = <<>> THEN 0
  ELSE 10 * NatValue(SubSeq(s, 1, Len(s) - 1)) + DigitVal(s[Len(s)])

\* str::parse::<usize>() and str::parse::<u128>() on the decimal strings of
\* the model (all far below either width)
ParseUnsigned(s) ==
  IF Len(s) >= 1 /\ AllIn(s, Digits) THEN Ok(NatValue(s))
  ELSE Err(<<"invalid digit found in string">>)

\* str::parse::<bool>()
ParseBool(s) ==
  IF s = <<"t", "r", "u", "e">> THEN Ok(TRUE)
  ELSE IF s = <<"f", "a", "l", "s", "e">> THEN Ok(FALSE)
  ELSE Err(<<"provided string was not true or false">>)

\* str::parse::<git::Oid>(): a non-empty string of hex digits
ParseOid(s) ==
  IF Len(s) >= 1 /\ AllIn(s, HexDigits) THEN Ok([hex |-> s])
  ELSE Err(<<"invalid object id">>)

FirstIndex(s, c) ==
  IF \E i \in 1..Len(s) : s[i] = c
  THEN CHOOSE i \in 1..Len(s) : s[i] = c /\ \A j \in 1..(i - 1) : s[j] # c
  ELSE 0

\* str::parse::<git::RemoteBranchName>(): <remote>/<branch-name>
ParseRemoteBranchName(s) ==
  LET i == FirstIndex(s, "/") IN
  IF i > 1 /\ i < Len(s)
  THEN Ok([remote |-> SubSeq(s, 1, i - 1), branch |-> SubSeq(s, i + 1, Len(s))])
  ELSE Err(<<"not a remote branch">>)

\* str::parse::<Ownership>(): <file path>:<hunk ranges>
ParseOwnership(s) ==
  LET i == FirstIndex(s, ":") IN
  IF i > 1 /\ i < Len(s)
  THEN Ok([file_path |-> SubSeq(s, 1, i - 1), hunks |-> SubSeq(s, i + 1, Len(s))])
  ELSE Err(<<"ownership parse error">>)

\* ---------------------------------------------------------------- the reader

Absent == [kind |-> "absent", content |-> <<>>]
Fault == [kind |-> "fault", content |-> <<>>]
File(s) == [kind |-> "file", content |-> s]

\* Reader::read_string(key)
read_string(reader, key) ==
  LET e == reader[key] IN
  IF e.kind = "absent" THEN Err(NotFound)
  ELSE IF e.kind = "fault" THEN Err(IOError(<<"storage fault">>))
  ELSE Ok(e.content)

\* Reader::read_bool(key): the stored string coerced to a boolean
read_bool(reader, key) ==
  LET s == read_string(reader, key) IN
  IF ~s.ok THEN s
  ELSE LET b == ParseBool(s.val) IN
       IF b.ok THEN b ELSE Err(IOError(<<"file is not a bool">>))

\* Reader::read_usize(key)
read_usize(reader, key) ==
  LET s == read_string(reader, key) IN
  IF ~s.ok THEN s
  ELSE LET n == ParseUnsigned(s.val) IN
       IF n.ok THEN n ELSE Err(IOError(<<"file is not a usize">>))

\* Reader::read_u128(key)
read_u128(reader, key) ==
  LET s == read_string(reader, key) IN
  IF ~s.ok THEN s
  ELSE LET n == ParseUnsigned(s.val) IN
       IF n.ok THEN n ELSE Err(IOError(<<"file is not a u128">>))

\* ------------------------------------------------------- the Branch entity

None == [some |-> FALSE, val |-> <<>>]
Some(v) == [some |-> TRUE, val |-> v]

NoOid == [hex |-> <<>>]
NoOwnership == [file_path |-> <<>>, hunks |-> <<>>]
NoError == [variant |-> "", msg |-> <<>>]

\* struct Branch
Branch(st, tree, head) ==
  [id |-> st.id, name |-> st.name, notes |-> st.notes, applied |-> st.applied,
   upstream |-> st.upstream, tree |-> tree, head |-> head,
   created_timestamp_ms |-> st.created_timestamp_ms,
   updated_timestamp_ms |-> st.updated_timestamp_ms,
   ownership |-> st.ownership, order |-> st.order]

NoBranch ==
  [id |-> <<>>, name |-> <<>>, notes |-> <<>>, applied |-> FALSE,
   upstream |-> None, tree |-> NoOid, head |-> NoOid,
   created_timestamp_ms |-> 0, updated_timestamp_ms |-> 0,
   ownership |-> NoOwnership, order |-> 0]

\* Result<Branch, crate::reader::Error>; "none" while the call is running
Pending == [status |-> "none", branch |-> NoBranch, err |-> NoError]
Success(b) == [status |-> "ok", branch |-> b, err |-> NoError]
Failure(e) == [status |-> "err", branch |-> NoBranch, err |-> e]

\* ------------------------------------------------ the locals of try_from

\* the locals on entry to try_from for branch b
Start(b) ==
  [branch |-> b, pc |-> "id", issued |-> <<>>,
   id |-> <<>>, name |-> <<>>, notes |-> <<>>, applied |-> FALSE, order |-> 0,
   upstream |-> None, tree |-> <<>>, head |-> <<>>,
   created_timestamp_ms |-> 0, updated_timestamp_ms |-> 0,
   ownership_string |-> <<>>, ownership |-> NoOwnership,
   result |-> Pending]

\* a reader lookup of key is issued
Issue(st, key) == [st EXCEPT !.issued = Append(@, key)]

\* the ? operator on an Err: try_from returns it
Return(st, res) == [st EXCEPT !.pc = "done", !.result = res]

\* ------------------------------- try_from, one statement after the other

\* let id = reader.read_string("id").map_err(..)?;
StepId(reader, st) ==
  LET r == read_string(reader, K_id)
      s == Issue(st, K_id) IN
  IF r.ok THEN [s EXCEPT !.id = r.val, !.pc = "name"]
  ELSE Return(s, Failure(Wrap(K_id, Display(r.err))))

\* let name = reader.read_string("meta/name").map_err(..)?;
StepName(reader, st) ==
  LET r == read_string(reader, K_name)
      s == Issue(st, K_name) IN
  IF r.ok THEN [s EXCEPT !.name = r.val, !.pc = "notes"]
  ELSE Return(s, Failure(Wrap(K_name, Display(r.err))))

\* StepNotes with every error taken as a missing key
StepNotes_DefaultOnAnyError(reader, st) ==
  LET r == read_string(reader, K_notes)
      s == Issue(st, K_notes) IN
  IF r.ok THEN [s EXCEPT !.notes = r.val, !.pc = "applied"]
  ELSE [s EXCEPT !.notes = <<>>, !.pc = "applied"]

\* let notes = match reader.read_string("meta/notes") {..}?;
StepNotes(reader, st) ==
  LET r == read_string(reader, K_notes)
      s == Issue(st, K_notes) IN
  IF r.ok THEN [s EXCEPT !.notes = r.val, !.pc = "applied"]
  ELSE IF r.err = NotFound THEN [s EXCEPT !.notes = <<>>, !.pc = "applied"]
  ELSE Return(s, Failure(r.err))

\* StepApplied without .or(Ok(false)): the error is returned
StepApplied_Propagate(reader, st) ==
  LET r == read_bool(reader, K_applied)
      s == Issue(st, K_applied) IN
  IF r.ok THEN [s EXCEPT !.applied = r.val, !.pc = "order"]
  ELSE Return(s, Failure(Wrap(K_applied, Display(r.err))))

\* let applied = reader.read_bool("meta/applied").map_err(..).or(Ok(false))?;
StepApplied(reader, st) ==
  LET r == read_bool(reader, K_applied)
      s == Issue(st, K_applied) IN
  IF r.ok THEN [s EXCEPT !.applied = r.val, !.pc = "order"]
  ELSE [s EXCEPT !.applied = FALSE, !.pc = "order"]

\* let order = match reader.read_usize("meta/order") {..}.map_err(..)?;
StepOrder(reader, st) ==
  LET r == read_usize(reader, K_order)
      s == Issue(st, K_order) IN
  IF r.ok THEN [s EXCEPT !.order = r.val, !.pc = "upstream"]
  ELSE IF r.err = NotFound THEN [s EXCEPT !.order = 0, !.pc = "upstream"]
  ELSE Return(s, Failure(Wrap(K_order, Display(r.err))))

\* StepUpstream without the is_empty test: the empty string is parsed
StepUpstream_ParseEmpty(reader, st) ==
  LET r == read_string(reader, K_upstream)
      s == Issue(st, K_upstream) IN
  IF r.ok THEN
    LET u == ParseRemoteBranchName(r.val) IN
    IF u.ok THEN [s EXCEPT !.upstream = Some(u.val), !.pc = "tree"]
    ELSE Return(s, Failure(Wrap(K_upstream, u.err)))
  ELSE IF r.err = NotFound THEN [s EXCEPT !.upstream = None, !.pc = "tree"]
  ELSE Return(s, Failure(r.err))

\* StepUpstream with a parse failure taken as no upstream
StepUpstream_IgnoreParseError(reader, st) ==
  LET r == read_string(reader, K_upstream)
      s == Issue(st, K_upstream) IN
  IF r.ok THEN
    LET u == ParseRemoteBranchName(r.val) IN
    IF u.ok THEN [s EXCEPT !.upstream = Some(u.val), !.pc = "tree"]
    ELSE [s EXCEPT !.upstream = None, !.pc = "tree"]
  ELSE IF r.err = NotFound THEN [s EXCEPT !.upstream = None, !.pc = "tree"]
  ELSE Return(s, Failure(r.err))

\* let upstream = match reader.read_string("meta/upstream") {..}?;
StepUpstream(reader, st) ==
  LET r == read_string(reader, K_upstream)
      s == Issue(st, K_upstream) IN
  IF r.ok THEN
    IF r.val = <<>> THEN [s EXCEPT !.upstream = None, !.pc = "tree"]
    ELSE LET u == ParseRemoteBranchName(r.val) IN
         IF u.ok THEN [s EXCEPT !.upstream = Some(u.val), !.pc = "tree"]
         ELSE Return(s, Failure(Wrap(K_upstream, u.err)))
  ELSE IF r.err = NotFound THEN [s EXCEPT !.upstream = None, !.pc = "tree"]
  ELSE Return(s, Failure(r.err))

\* let tree = reader.read_string("meta/tree").map_err(..)?;
StepTree(reader, st) ==
  LET r == read_string(reader, K_tree)
      s == Issue(st, K_tree) IN
  IF r.ok THEN [s EXCEPT !.tree = r.val, !.pc = "head"]
  ELSE Return(s, Failure(Wrap(K_tree, Display(r.err))))

\* let head = reader.read_string("meta/head").map_err(..)?;
StepHead(reader, st) ==
  LET r == read_string(reader, K_head)
      s == Issue(st, K_head) IN
  IF r.ok THEN [s EXCEPT !.head = r.val, !.pc = "created"]
  ELSE Return(s, Failure(Wrap(K_head, Display(r.err))))

\* StepCreated with the error text of the next statement
StepCreated_WrongKeyInText(reader, st) ==
  LET r == read_u128(reader, K_created)
      s == Issue(st, K_created) IN
  IF r.ok THEN [s EXCEPT !.created_timestamp_ms = r.val, !.pc = "updated"]
  ELSE Return(s, Failure(Wrap(K_updated, Display(r.err))))

\* let created_timestamp_ms = reader.read_u128(..).map_err(..)?;
StepCreated(reader, st) ==
  LET r == read_u128(reader, K_created)
      s == Issue(st, K_created) IN
  IF r.ok THEN [s EXCEPT !.created_timestamp_ms = r.val, !.pc = "updated"]
  ELSE Return(s, Failure(Wrap(K_created, Display(r.err))))

\* StepUpdated looking up the key of the statement before it
StepUpdated_ReadsCreated(reader, st) ==
  LET r == read_u128(reader, K_created)
      s == Issue(st, K_created) IN
  IF r.ok THEN [s EXCEPT !.updated_timestamp_ms = r.val, !.pc = "ownership"]
  ELSE Return(s, Failure(Wrap(K_updated, Display(r.err))))

\* let updated_timestamp_ms = reader.read_u128(..).map_err(..)?;
StepUpdated(reader, st) ==
  LET r == read_u128(reader, K_updated)
      s == Issue(st, K_updated) IN
  IF r.ok THEN [s EXCEPT !.updated_timestamp_ms = r.val, !.pc = "ownership"]
  ELSE Return(s, Failure(Wrap(K_updated, Display(r.err))))

\* let ownership_string = reader.read_string("meta/ownership").map_err(..)?;
StepOwnershipString(reader, st) ==
  LET r == read_string(reader, K_ownership)
      s == Issue(st, K_ownership) IN
  IF r.ok THEN [s EXCEPT !.ownership_string = r.val, !.pc = "parse_ownership"]
  ELSE Return(s, Failure(Wrap(K_ownership, Display(r.err))))

\* let ownership = ownership_string.parse().map_err(..)?;
StepOwnership(st) ==
  LET o == ParseOwnership(st.ownership_string) IN
  IF o.ok THEN [st EXCEPT !.ownership = o.val, !.pc = "assemble"]
  ELSE Return(st, Failure(Wrap(K_ownership, o.err)))

\* StepAssemble with head parsed from the tree string
StepAssemble_HeadFromTree(st) ==
  LET t == ParseOid(st.tree) IN
  IF ~t.ok THEN Return(st, Failure(Wrap(K_tree, t.err)))
  ELSE LET h == ParseOid(st.tree) IN
       IF ~h.ok THEN Return(st, Failure(Wrap(K_head, h.err)))
       ELSE Return(st, Success(Branch(st, t.val, h.val)))

\* StepAssemble with head parsed before tree
StepAssemble_HeadFirst(st) ==
  LET h == ParseOid(st.head) IN
  IF ~h.ok THEN Return(st, Failure(Wrap(K_head, h.err)))
  ELSE LET t == ParseOid(st.tree) IN
       IF ~t.ok THEN Return(st, Failure(Wrap(K_tree, t.err)))
       ELSE Return(st, Success(Branch(st, t.val, h.val)))

\* Ok(Self { .., tree: tree.parse().map_err(..)?, head: head.parse().map_err(..)?, .. })
StepAssemble(st) ==
  LET t == ParseOid(st.tree) IN
  IF ~t.ok THEN Return(st, Failure(Wrap(K_tree, t.err)))
  ELSE LET h == ParseOid(st.head) IN
       IF ~h.ok THEN Return(st, Failure(Wrap(K_head, h.err)))
       ELSE Return(st, Success(Branch(st, t.val, h.val)))

\* the statement at st.pc
Step(reader, st) ==
  CASE st.pc = "id" -> StepId(reader, st)
    [] st.pc = "name" -> StepName(reader, st)
    [] st.pc = "notes" -> StepNotes(reader, st)
    [] st.pc = "applied" -> StepApplied(reader, st)
    [] st.pc = "order" -> StepOrder(reader, st)
    [] st.pc = "upstream" -> StepUpstream(reader, st)
    [] st.pc = "tree" -> StepTree(reader, st)
    [] st.pc = "head" -> StepHead(reader, st)
    [] st.pc = "created" -> StepCreated(reader, st)
    [] st.pc = "updated" -> StepUpdated(reader, st)
    [] st.pc = "ownership" -> StepOwnershipString(reader, st)
    [] st.pc = "parse_ownership" -> StepOwnership(st)
    [] st.pc = "assemble" -> StepAssemble(st)
    [] OTHER -> st

RECURSIVE Run(_, _)
Run(reader, st) == IF st.pc = "done" THEN st ELSE Run(reader, Step(reader, st))

\* Branch::try_from(reader): the value the whole call returns
try_from(reader) == Run(reader, Start("b1")).result

\* ------------------------------------------------------ the stored records

\* the contents a key is stored with
Contents(k) ==
  CASE k = K_id -> {<<"b", "1">>}
    [] k = K_name -> {<<"f", "x">>}
    [] k = K_notes -> {<<"n">>}
    [] k = K_applied -> {<<"t", "r", "u", "e">>, <<"f", "a", "l", "s", "e">>, <<"1">>}
    [] k = K_order -> {<<"7">>, <<"x">>}
    [] k = K_upstream -> {<<"o", "/", "m">>, <<>>, <<"n">>}
    [] k = K_tree -> {<<"a", "1">>, <<"z">>}
    [] k = K_head -> {<<"b", "2">>, <<"z">>}
    [] k = K_created -> {<<"1", "0">>, <<"1", "x">>}
    [] k = K_updated -> {<<"2", "0">>, <<"x">>}
    [] k = K_ownership -> {<<"f", ":", "1">>, <<"f">>}

Entries(k) == {Absent, Fault} \cup {File(s) : s \in Contents(k)}

\* a record with every key present and valid
FullRecord ==
  [k \in Keys |->
     CASE k = K_id -> File(<<"b", "1">>)
       [] k = K_name -> File(<<"f", "x">>)
       [] k = K_notes -> File(<<"n">>)
       [] k = K_applied -> File(<<"t", "r", "u", "e">>)
       [] k = K_order -> File(<<"7">>)
       [] k = K_upstream -> File(<<"o", "/", "m">>)
       [] k = K_tree -> File(<<"a", "1">>)
       [] k = K_head -> File(<<"b", "2">>)
       [] k = K_created -> File(<<"1", "0">>)
       [] k = K_updated -> File(<<"2", "0">>)
       [] k = K_ownership -> File(<<"f", ":", "1">>)]

OptionalKeys == {K_notes, K_applied, K_order, K_upstream}
RequiredKeys == Keys \ OptionalKeys

\* a record holding the seven required keys and no other
MinimalRecord == [k \in Keys |-> IF k \in OptionalKeys THEN Absent ELSE FullRecord[k]]

\* the records that differ from a well-formed one in at most n keys
RECURSIVE DevStores(_)
DevStores(n) ==
  IF n = 0 THEN {FullRecord, MinimalRecord}
  ELSE LET S == DevStores(n - 1) IN
       S \cup {[s EXCEPT ![k] = e] : s \in S, <<k, e>> \in UNION {{k} \X Entries(k) : k \in Keys}}

\* the records of SpecConc
SampleStores ==
  {FullRecord, MinimalRecord,
   [FullRecord EXCEPT ![K_applied] = Fault],
   [FullRecord EXCEPT ![K_tree] = File(<<"z">>), ![K_notes] = Absent]}

Branches == {"b1", "b2"}
Decoders == 1..NumDecoders

\* ------------------------------------------------------------ the actions

\* one caller decodes one branch, several times over
Init ==
  /\ store \in [{"b1"} -> DevStores(MaxFaults)]
  /\ local = [p \in {1} |-> Start("b1")]
  /\ returned = {}
  /\ repeats = 0

\* several callers decode two branches concurrently
InitConc ==
  /\ store \in {[b \in Branches |-> IF b = "b1" THEN s ELSE MinimalRecord] :
                  s \in SampleStores}
  /\ local \in {[p \in Decoders |-> Start(b[p])] : b \in [Decoders -> Branches]}
  /\ returned = {}
  /\ repeats = 0

\* decoder p executes one statement of try_from, which only reads the store
Advance(p, st) ==
  /\ local' = [local EXCEPT ![p] = st]
  /\ returned' = IF st.pc = "done" THEN returned \cup {<<st.branch, st.result>>}
                 ELSE returned
  /\ UNCHANGED <<store, repeats>>

Reader(p) == store[local[p].branch]

\* ReadApplied writing the default back when the lookup fails
ReadApplied_WritesDefault(p) ==
  /\ local[p].pc = "applied"
  /\ local' = [local EXCEPT ![p] = StepApplied(Reader(p), local[p])]
  /\ store' = IF read_bool(Reader(p), K_applied).ok THEN store
              ELSE [store EXCEPT ![local[p].branch][K_applied] = File(<<"f", "a", "l", "s", "e">>)]
  /\ UNCHANGED <<returned, repeats>>

ReadId(p) == local[p].pc = "id" /\ Advance(p, StepId(Reader(p), local[p]))
ReadName(p) == local[p].pc = "name" /\ Advance(p, StepName(Reader(p), local[p]))
ReadNotes(p) == local[p].pc = "notes" /\ Advance(p, StepNotes(Reader(p), local[p]))
ReadApplied(p) == local[p].pc = "applied" /\ Advance(p, StepApplied(Reader(p), local[p]))
ReadOrder(p) == local[p].pc = "order" /\ Advance(p, StepOrder(Reader(p), local[p]))
ReadUpstream(p) == local[p].pc = "upstream" /\ Advance(p, StepUpstream(Reader(p), local[p]))
ReadTree(p) == local[p].pc = "tree" /\ Advance(p, StepTree(Reader(p), local[p]))
ReadHead(p) == local[p].pc = "head" /\ Advance(p, StepHead(Reader(p), local[p]))
ReadCreated(p) == local[p].pc = "created" /\ Advance(p, StepCreated(Reader(p), local[p]))
ReadUpdated(p) == local[p].pc = "updated" /\ Advance(p, StepUpdated(Reader(p), local[p]))
ReadOwnership(p) ==
  local[p].pc = "ownership" /\ Advance(p, StepOwnershipString(Reader(p), local[p]))
ParseOwnershipString(p) ==
  local[p].pc = "parse_ownership" /\ Advance(p, StepOwnership(local[p]))
Assemble(p) == local[p].pc = "assemble" /\ Advance(p, StepAssemble(local[p]))

\* the caller of p, having its result, decodes a branch again
Again(p) ==
  /\ local[p].pc = "done"
  /\ repeats < MaxRepeats
  /\ repeats' = repeats + 1
  /\ \E b \in DOMAIN store : local' = [local EXCEPT ![p] = Start(b)]
  /\ UNCHANGED <<store, returned>>

Next ==
  \E p \in DOMAIN local :
    \/ ReadId(p)
    \/ ReadName(p)
    \/ ReadNotes(p)
    \/ ReadApplied(p)
    \/ ReadOrder(p)
    \/ ReadUpstream(p)
    \/ ReadTree(p)
    \/ ReadHead(p)
    \/ ReadCreated(p)
    \/ ReadUpdated(p)
    \/ ReadOwnership(p)
    \/ ParseOwnershipString(p)
    \/ Assemble(p)
    \/ Again(p)

Spec == Init /\ [][Next]_vars
SpecConc == InitConc /\ [][Next]_vars

TypeOK ==
  /\ \A b \in DOMAIN store : \A k \in Keys : store[b][k] \in Entries(k)
  /\ repeats \in 0..MaxRepeats

\* ------------------------------------------- what a stored record holds

Done(p) == local[p].pc = "done"
Res(p) == local[p].result

\* the lookups of try_from, in the order of its statements
KeyOrder ==
  <<K_id, K_name, K_notes, K_applied, K_order, K_upstream, K_tree, K_head,
    K_created, K_updated, K_ownership>>

Missing(r, k) == r[k].kind = "absent"
Faulted(r, k) == r[k].kind = "fault"
Present(r, k) == r[k].kind = "file"

BadBool(r, k) == Present(r, k) /\ ~ParseBool(r[k].content).ok
BadUnsigned(r, k) == Present(r, k) /\ ~ParseUnsigned(r[k].content).ok
BadOid(r, k) == Present(r, k) /\ ~ParseOid(r[k].content).ok
BadOwnership(r, k) == Present(r, k) /\ ~ParseOwnership(r[k].content).ok
BadUpstream(r, k) ==
  Present(r, k) /\ r[k].content # <<>> /\ ~ParseRemoteBranchName(r[k].content).ok

\* the failure text names key k
NamesKey(e, k) == e.variant = "IOError" /\ Len(e.msg) >= 1 /\ e.msg[1] = k

\* the failure text tells a missing key from any other fault
SaysNotFound(e) == e.variant = "NotFound" \/ \E i \in 1..Len(e.msg) : e.msg[i] = "file not found"

\* the fatal faults, one name per fallible step of the decode
StepKey(s) ==
  CASE s = "id" -> K_id
    [] s = "name" -> K_name
    [] s = "notes" -> K_notes
    [] s = "order" -> K_order
    [] s = "upstream" -> K_upstream
    [] s \in {"tree_read", "tree_parse"} -> K_tree
    [] s \in {"head_read", "head_parse"} -> K_head
    [] s = "created" -> K_created
    [] s = "updated" -> K_updated
    [] s = "ownership" -> K_ownership

StepFails(r, s) ==
  CASE s = "id" -> ~Present(r, K_id)
    [] s = "name" -> ~Present(r, K_name)
    [] s = "notes" -> Faulted(r, K_notes)
    [] s = "order" -> Faulted(r, K_order) \/ BadUnsigned(r, K_order)
    [] s = "upstream" -> Faulted(r, K_upstream) \/ BadUpstream(r, K_upstream)
    [] s = "tree_read" -> ~Present(r, K_tree)
    [] s = "tree_parse" -> BadOid(r, K_tree)
    [] s = "head_read" -> ~Present(r, K_head)
    [] s = "head_parse" -> BadOid(r, K_head)
    [] s = "created" -> ~Present(r, K_created) \/ BadUnsigned(r, K_created)
    [] s = "updated" -> ~Present(r, K_updated) \/ BadUnsigned(r, K_updated)
    [] s = "ownership" -> ~Present(r, K_ownership) \/ BadOwnership(r, K_ownership)

\* the step order the description of the algorithm gives
DescribedOrder ==
  <<"id", "name", "notes", "order", "upstream", "tree_read", "tree_parse",
    "head_read", "head_parse", "created", "updated", "ownership">>

\* the step order of the statements of try_from
StatementOrder ==
  <<"id", "name", "notes", "order", "upstream", "tree_read", "head_read",
    "created", "updated", "ownership", "tree_parse", "head_parse">>

\* the first step of order that fails on record r, "none" when no step does
FirstFailing(r, order) ==
  IF \E i \in 1..Len(order) : StepFails(r, order[i])
  THEN order[CHOOSE i \in 1..Len(order) :
               StepFails(r, order[i]) /\ \A j \in 1..(i - 1) : ~StepFails(r, order[j])]
  ELSE "none"

\* failure e is the failure of key k: it names k, or it is the reader's own
\* error for k
Reports(e, r, k) == NamesKey(e, k) \/ (Faulted(r, k) /\ e = read_string(r, k).err)

RequiredValid(r) == \A s \in {"id", "name", "tree_read", "tree_parse", "head_read",
                              "head_parse", "created", "updated", "ownership"} :
                       ~StepFails(r, s)

OptionalUsable(r) == \A s \in {"notes", "order", "upstream"} : ~StepFails(r, s)

AllPresentValid(r) ==
  /\ \A k \in Keys : Present(r, k)
  /\ RequiredValid(r) /\ OptionalUsable(r)
  /\ ~BadBool(r, K_applied)

\* ------------------------------------------------------------ the claims

\* C1: when all eleven keys are present and valid, try_from succeeds and
\* every field of the Branch is the stored value of its key after coercion;
\* upstream is Some(parsed reference) when the stored string is non-empty.
C1_AllPresentDecodes ==
  \A p \in DOMAIN local :
    LET r == Reader(p)
        b == Res(p).branch IN
    (Done(p) /\ AllPresentValid(r)) =>
      /\ Res(p).status = "ok"
      /\ b.id = r[K_id].content
      /\ b.name = r[K_name].content
      /\ b.notes = r[K_notes].content
      /\ b.applied = (r[K_applied].content = <<"t", "r", "u", "e">>)
      /\ b.order = ParseUnsigned(r[K_order].content).val
      /\ b.upstream = IF r[K_upstream].content = <<>> THEN None
                      ELSE Some(ParseRemoteBranchName(r[K_upstream].content).val)
      /\ b.tree = ParseOid(r[K_tree].content).val
      /\ b.head = ParseOid(r[K_head].content).val
      /\ b.created_timestamp_ms = ParseUnsigned(r[K_created].content).val
      /\ b.updated_timestamp_ms = ParseUnsigned(r[K_updated].content).val
      /\ b.ownership = ParseOwnership(r[K_ownership].content).val

\* a decode of the full record has returned its Branch
C1_Witness ==
  \E p \in DOMAIN local :
    /\ Done(p) /\ Reader(p) = FullRecord /\ Res(p).status = "ok"
    /\ Res(p).branch.order = 7
    /\ Res(p).branch.created_timestamp_ms = 10
    /\ Res(p).branch.updated_timestamp_ms = 20
    /\ Res(p).branch.applied = TRUE
    /\ Res(p).branch.tree = [hex |-> <<"a", "1">>]
    /\ Res(p).branch.head = [hex |-> <<"b", "2">>]
    /\ Res(p).branch.upstream = Some([remote |-> <<"o">>, branch |-> <<"m">>])
    /\ Res(p).branch.ownership = [file_path |-> <<"f">>, hunks |-> <<"1">>]

\* the defaults of the optional fields on a successful decode of r
DefaultsApplied(r, b) ==
  /\ Missing(r, K_notes) => b.notes = <<>>
  /\ Missing(r, K_order) => b.order = 0
  /\ Missing(r, K_upstream) => b.upstream = None
  /\ r[K_upstream] = File(<<>>) => b.upstream = None
  /\ (\A k \in OptionalKeys : Missing(r, k)) =>
       (b.notes = <<>> /\ b.applied = FALSE /\ b.order = 0 /\ b.upstream = None)

\* C2 as stated: whenever the seven required keys are present and valid,
\* the decode succeeds, with notes "" for a missing meta/notes, order 0 for a
\* missing meta/order, upstream None for a missing or empty meta/upstream.
C2_RequiredValidSucceeds ==
  \A p \in DOMAIN local :
    (Done(p) /\ RequiredValid(Reader(p))) =>
      (Res(p).status = "ok" /\ DefaultsApplied(Reader(p), Res(p).branch))

\* C2 amended: whenever the seven required keys are present and valid and
\* none of meta/notes, meta/order, meta/upstream has a read fault or a
\* malformed value, the decode succeeds with the defaults of C2.
C2_DefaultsOfOptionalFields ==
  \A p \in DOMAIN local :
    (Done(p) /\ RequiredValid(Reader(p)) /\ OptionalUsable(Reader(p))) =>
      (Res(p).status = "ok" /\ DefaultsApplied(Reader(p), Res(p).branch))

\* the record of the seven required keys has been decoded to the defaults
C2_Witness ==
  \E p \in DOMAIN local :
    /\ Done(p) /\ Reader(p) = MinimalRecord /\ Res(p).status = "ok"
    /\ Res(p).branch.notes = <<>> /\ Res(p).branch.applied = FALSE
    /\ Res(p).branch.order = 0 /\ Res(p).branch.upstream = None
    /\ Res(p).branch.id = <<"b", "1">>

\* the record r with meta/applied stored as false
AppliedStoredFalse(r) == [r EXCEPT ![K_applied] = File(<<"f", "a", "l", "s", "e">>)]

\* C3: when read_bool("meta/applied") is an error (missing, not a boolean,
\* I/O fault), the decode returns what it returns for the same record with
\* meta/applied stored as false, and a returned Branch has applied = false.
C3_AppliedNeverFails ==
  \A p \in DOMAIN local :
    (Done(p) /\ ~read_bool(Reader(p), K_applied).ok) =>
      /\ Res(p) = try_from(AppliedStoredFalse(Reader(p)))
      /\ Res(p).status = "ok" => Res(p).branch.applied = FALSE
      /\ Res(p).status = "err" => ~NamesKey(Res(p).err, K_applied)

\* a record whose meta/applied is not a boolean has been decoded
C3_Witness ==
  \E p \in DOMAIN local :
    /\ Done(p) /\ BadBool(Reader(p), K_applied)
    /\ Res(p).status = "ok" /\ Res(p).branch.applied = FALSE

\* required key k is missing or malformed in r
RequiredKeyFaulty(r, k) ==
  \E s \in {"id", "name", "tree_read", "tree_parse", "head_read", "head_parse",
            "created", "updated", "ownership"} : StepKey(s) = k /\ StepFails(r, s)

\* C4 as stated: a missing or malformed required key k makes the decode fail
\* with no Branch, and the failure names k.
C4_FailureNamesEveryFaultyKey ==
  \A p \in DOMAIN local : \A k \in RequiredKeys :
    (Done(p) /\ RequiredKeyFaulty(Reader(p), k)) =>
      /\ Res(p).status = "err" /\ Res(p).branch = NoBranch
      /\ NamesKey(Res(p).err, k)

\* C4 amended: a missing or malformed required key k makes the decode fail
\* with no Branch, and the failure names k when no statement of try_from
\* before the one that fails on k fails itself.
C4_FailureNamesFirstFaultyKey ==
  \A p \in DOMAIN local : \A k \in RequiredKeys :
    (Done(p) /\ RequiredKeyFaulty(Reader(p), k)) =>
      /\ Res(p).status = "err" /\ Res(p).branch = NoBranch
      /\ StepKey(FirstFailing(Reader(p), StatementOrder)) = k => NamesKey(Res(p).err, k)

\* a decode has failed on a malformed meta/head and names it
C4_Witness ==
  \E p \in DOMAIN local :
    /\ Done(p) /\ BadOid(Reader(p), K_head)
    /\ FirstFailing(Reader(p), StatementOrder) = "head_parse"
    /\ Res(p).status = "err" /\ NamesKey(Res(p).err, K_head)

\* C5: a non-empty meta/upstream that is no remote-branch reference, with
\* id, name, notes and order decoding, fails the decode naming meta/upstream.
C5_BadUpstreamFails ==
  \A p \in DOMAIN local :
    LET r == Reader(p) IN
    (/\ Done(p) /\ BadUpstream(r, K_upstream)
     /\ \A s \in {"id", "name", "notes", "order"} : ~StepFails(r, s)) =>
      /\ Res(p).status = "err" /\ Res(p).branch = NoBranch
      /\ NamesKey(Res(p).err, K_upstream)

\* a decode has failed on the stored upstream "n"
C5_Witness ==
  \E p \in DOMAIN local :
    /\ Done(p) /\ Reader(p)[K_upstream] = File(<<"n">>)
    /\ Res(p).status = "err" /\ NamesKey(Res(p).err, K_upstream)
    /\ Len(local[p].issued) = 6

\* the fault that ends a decode of r is a missing key
CauseIsNotFound(r) ==
  LET f == FirstFailing(r, StatementOrder) IN
  f \in {"id", "name", "tree_read", "head_read", "created", "updated", "ownership"}
    /\ Missing(r, StepKey(f))

\* C6: every failure of the decode keeps the name of the key that failed
\* and whether the cause was "not found" or another fault, a read fault on
\* meta/notes or meta/upstream included.
C6_FailureKeepsKeyAndCause ==
  \A p \in DOMAIN local :
    (Done(p) /\ Res(p).status = "err") =>
      /\ NamesKey(Res(p).err, StepKey(FirstFailing(Reader(p), StatementOrder)))
      /\ SaysNotFound(Res(p).err) <=> CauseIsNotFound(Reader(p))

\* C7: a decode only reads: the store never changes, and all the decodes of
\* a branch, one after the other or interleaved with decodes of the other
\* branch, return the same result.
C7_DecodeIsPure ==
  /\ [][store' = store]_vars
  /\ [](\A x \in returned : \A y \in returned : x[1] = y[1] => x[2] = y[2])

\* two callers and a repeated call have decoded the same branch, and both
\* branches have been decoded
C7_Witness ==
  /\ repeats >= 1
  /\ \E p \in DOMAIN local : \E q \in DOMAIN local :
       p # q /\ Done(p) /\ Done(q) /\ local[p].branch = local[q].branch
  /\ \A b \in Branches : \E x \in returned : x[1] = b

\* the ownership step of p has succeeded
OwnershipDecoded(p) ==
  Len(local[p].issued) = Len(KeyOrder) /\ ~StepFails(Reader(p), "ownership")

\* the decode of p has failed on the first faulty step of order
ReportsFirstOf(p, order) ==
  LET f == FirstFailing(Reader(p), order) IN
  IF f = "none" THEN Res(p).status = "ok"
  ELSE Res(p).status = "err" /\ Reports(Res(p).err, Reader(p), StepKey(f))

\* C8 as stated: the failure reported is the one of the first faulty step in
\* the order id, name, notes, order, upstream, tree read and parse, head read
\* and parse, created, updated, ownership; once the ownership step has
\* succeeded the decode succeeds.
C8_DescribedOrderDecides ==
  \A p \in DOMAIN local :
    Done(p) => /\ ReportsFirstOf(p, DescribedOrder)
               /\ OwnershipDecoded(p) => Res(p).status = "ok"

\* C8 amended: the failure reported is the one of the first faulty step in
\* the order id, name, notes, order, upstream, tree read, head read, created,
\* updated, ownership read and parse, tree parse, head parse; once the
\* ownership step has succeeded the decode fails only on a malformed
\* meta/tree or meta/head, which it names.
C8_StatementOrderDecides ==
  \A p \in DOMAIN local :
    Done(p) => /\ ReportsFirstOf(p, StatementOrder)
               /\ (OwnershipDecoded(p) /\ Res(p).status = "err") =>
                    \/ BadOid(Reader(p), K_tree) /\ NamesKey(Res(p).err, K_tree)
                    \/ /\ ~BadOid(Reader(p), K_tree) /\ BadOid(Reader(p), K_head)
                       /\ NamesKey(Res(p).err, K_head)

\* meta/tree and meta/head are both malformed and the decode names meta/tree
C8_Witness ==
  \E p \in DOMAIN local :
    /\ Done(p) /\ BadOid(Reader(p), K_tree) /\ BadOid(Reader(p), K_head)
    /\ OwnershipDecoded(p)
    /\ Res(p).status = "err" /\ NamesKey(Res(p).err, K_tree)

\* C9: a read fault other than not-found on meta/notes, meta/order or
\* meta/upstream fails the decode with no Branch; a default in a returned
\* Branch stands for a missing key or is the stored value.
C9_OptionalFaultsPropagate ==
  \A p \in DOMAIN local :
    LET r == Reader(p)
        b == Res(p).branch IN
    Done(p) =>
      /\ (\/ Faulted(r, K_notes)
          \/ (~read_usize(r, K_order).ok /\ ~Missing(r, K_order))
          \/ Faulted(r, K_upstream)) =>
           (Res(p).status = "err" /\ b = NoBranch)
      /\ Res(p).status = "ok" =>
           /\ b.notes = <<>> => (Missing(r, K_notes) \/ r[K_notes] = File(<<>>))
           /\ b.order = 0 => (Missing(r, K_order) \/ read_usize(r, K_order) = Ok(0))
           /\ b.upstream = None => (Missing(r, K_upstream) \/ r[K_upstream] = File(<<>>))

\* a decode has failed on an unreadable meta/notes after reading id and name
C9_Witness ==
  \E p \in DOMAIN local :
    /\ Done(p) /\ Faulted(Reader(p), K_notes)
    /\ local[p].issued = <<K_id, K_name, K_notes>>
    /\ Res(p).status = "err" /\ Res(p).branch = NoBranch

\* the number of lookups issued when the decode of r returns
LookupsIssued(r) ==
  LET f == FirstFailing(r, StatementOrder) IN
  IF f \in {"none", "tree_parse", "head_parse"} THEN Len(KeyOrder)
  ELSE CHOOSE i \in 1..Len(KeyOrder) : KeyOrder[i] = StepKey(f)

\* C10: the lookups are issued in the order id, meta/name, meta/notes,
\* meta/applied, meta/order, meta/upstream, meta/tree, meta/head,
\* meta/created_timestamp_ms, meta/updated_timestamp_ms, meta/ownership, each
\* at most once; the lookups issued are a prefix of that order that ends with
\* the first fatal failure, and a successful decode issues all eleven.
C10_LookupsArePrefix ==
  \A p \in DOMAIN local :
    /\ Len(local[p].issued) <= Len(KeyOrder)
    /\ \A i \in 1..Len(local[p].issued) : local[p].issued[i] = KeyOrder[i]
    /\ Res(p).status # "none" <=> Done(p)
    /\ Done(p) => Len(local[p].issued) = LookupsIssued(Reader(p))
    /\ Res(p).status = "ok" => local[p].issued = KeyOrder

\* a decode has stopped at a failing lookup, short of the later keys
C10_Witness ==
  \E p \in DOMAIN local :
    /\ Done(p) /\ Res(p).status = "err"
    /\ local[p].issued = SubSeq(KeyOrder, 1, 8)

====
